---- MODULE Spec2Model ----
(***************************************************************************)
(* Model of the Result<ok_t, err_t> container of src/result.cpp.           *)
(*                                                                         *)
(* One instantiation Result<okT, errT> is fixed in Init.  A bounded number *)
(* of container objects (automatic variables of that type) is constructed  *)
(* from Success/Failure wrappers, copied, moved, queried and destroyed.    *)
(* An object is                                                            *)
(*   "none"  : not constructed yet,                                        *)
(*   "live"  : constructed, in scope,                                      *)
(*   "ended" : the move constructor has already called its destructor      *)
(*             (result.~Result()), the variable is still in scope,         *)
(*   "gone"  : the variable left its scope (its destructor has run).       *)
(* Values are records [t |-> type name, v |-> integer]; for shared_ptr the *)
(* integer is the pointee (0 is the null pointer), for char12 it names one *)
(* of the fixed texts, for None it is the null pointer 0.                  *)
(***************************************************************************)
EXTENDS Integers, Sequences, FiniteSets, TLC

MaxObjs == 2
MaxPtr == 1

Objs == 1..MaxObjs
Ptrs == 1..MaxPtr

VARIABLES okT, errT, status, m_success, m_storage, dtorLog, from, refs,
          cerr, terminated, last

vars == <<okT, errT, status, m_success, m_storage, dtorLog, from, refs,
          cerr, terminated, last>>

---------------------------------------------------------------------------
(* Types the container is instantiated with.                               *)

TypeNames == {"void", "None", "short", "int", "shared_ptr", "char12"}

SizeOf(t) ==
  CASE t = "None" -> 8
    [] t = "short" -> 2
    [] t = "int" -> 4
    [] t = "shared_ptr" -> 16
    [] t = "char12" -> 12
    [] OTHER -> 0

AlignOf(t) ==
  CASE t = "None" -> 8
    [] t = "short" -> 2
    [] t = "int" -> 4
    [] t = "shared_ptr" -> 8
    [] t = "char12" -> 1
    [] OTHER -> 1

nullptr == [t |-> "None", v |-> 0]

Val(t, n) == [t |-> t, v |-> n]

ValuesOf(t) ==
  CASE t = "None" -> {nullptr}
    [] t = "short" -> {Val("short", 0), Val("short", 7)}
    [] t = "int" -> {Val("int", 0), Val("int", 3), Val("int", 70003)}
    [] t = "shared_ptr" -> {Val("shared_ptr", p) : p \in {0} \cup Ptrs}
    [] t = "char12" -> {Val("char12", 1), Val("char12", 2)}
    [] OTHER -> {}

Indeterminate == [t |-> "-", v |-> 0]

Messages == {"failed to retrieve the value"}

---------------------------------------------------------------------------
(* Wrappers and factory operations.                                        *)

Success(ok) == [tag |-> "Success", value |-> ok]

Failure(err) == [tag |-> "Failure", value |-> err]

\* Ok(): success without a value.
Ok0 == Success(nullptr)

\* Ok(value): Success<decay_t<ok_t>> carrying the value.
Ok(value) == Success(value)

\* Err(value): Failure<decay_t<err_t>> carrying the value.
Err(value) == Failure(value)

PayloadTypes == TypeNames \ {"void"}

AllValues == UNION {ValuesOf(t) : t \in PayloadTypes}

Wrappers == {Ok0} \cup {Ok(x) : x \in AllValues} \cup {Err(x) : x \in AllValues}

---------------------------------------------------------------------------
(* The class template: its type-level check and its storage layout.        *)

\* static_assert(!std::is_same_v<err_t, void>, ...)
StaticAssert(err_t) == err_t # "void"

\* A specialization Result<ok_t, err_t> that compiles: the static_assert
\* passes, and sizeof/alignof and the references ok_t&, err_t& are formed.
Instantiable(ok_t, err_t) ==
  /\ StaticAssert(err_t)
  /\ ok_t # "void"
  /\ err_t # "void"

size_(ok_t, err_t) ==
  IF SizeOf(ok_t) > SizeOf(err_t) THEN SizeOf(ok_t) ELSE SizeOf(err_t)

align_(ok_t, err_t) ==
  IF SizeOf(ok_t) > SizeOf(err_t) THEN AlignOf(ok_t) ELSE AlignOf(err_t)

---------------------------------------------------------------------------
(* Payload operations: what the payload types' own special members do.     *)

\* Copy construction of a payload: the new object has the source's value.
CopyConstruct(x) == x

\* Move construction of a payload: the new object takes the source's value.
MoveConstruct(x) == x

\* What move construction leaves in the source: a shared_ptr is nulled,
\* the other payload types are copied bitwise and keep their value.
MovedFrom(x) == IF x.t = "shared_ptr" THEN Val("shared_ptr", 0) ELSE x

\* Owners of the pointee after a shared_ptr payload with value x is made.
Acquire(r, x) ==
  IF x.t = "shared_ptr" /\ x.v # 0 THEN [r EXCEPT ![x.v] = @ + 1] ELSE r

\* Owners of the pointee after a payload with value x is destroyed.
Release(r, x) ==
  IF x.t = "shared_ptr" /\ x.v # 0 /\ r[x.v] > 0
  THEN [r EXCEPT ![x.v] = @ - 1] ELSE r

---------------------------------------------------------------------------
(* Accessors, as functions of one container r = [m_success, m_storage].    *)

Self(s) == [m_success |-> m_success[s], m_storage |-> m_storage[s]]

\* ok_t& Ok() / err_t& Err(): the storage reinterpreted.
OkRef(r) == r.m_storage

ErrRef(r) == r.m_storage

NoValue == Indeterminate

Return(x) == [kind |-> "return", value |-> x, out |-> <<>>]

ErrorTerminate_silent(str) ==
  [kind |-> "terminate", value |-> NoValue, out |-> <<>>]

\* std::cerr << str << std::endl; std::terminate();
ErrorTerminate(str) ==
  [kind |-> "terminate", value |-> NoValue, out |-> <<str, "\n">>]

GetOkMsg == "Attempting to Result::GetOk an error Result."

GetErrMsg == "Attempting to Result::GetErr an ok Result."

\* Two's complement value of n in a signed integer of the given width.
Wrap(n, bits) ==
  LET m == n % (2 ^ bits)
  IN  IF m >= 2 ^ (bits - 1) THEN m - 2 ^ bits ELSE m

\* Implicit conversion of a value to type T in a return statement.
Convert(x, T) ==
  CASE x.t = T -> x
    [] x.t = "int" /\ T = "short" -> Val("short", Wrap(x.v, 16))
    [] x.t = "short" /\ T = "int" -> Val("int", x.v)
    [] OTHER -> NoValue

Convertible(from_t, T) ==
  \/ from_t = T
  \/ {from_t, T} = {"int", "short"}

\* TryGet<T>(const T& defval): T is deduced from the argument; the member
\* exists when T is not None and ok_t converts to T.
TryGetWellFormed(ok_t, T) == T # "None" /\ Convertible(ok_t, T)

TryGet(r, T, defval) ==
  IF r.m_success THEN Return(Convert(OkRef(r), T)) ELSE Return(defval)

\* GetOk<T = ok_t>(): exists when ok_t is not None.
GetOkWellFormed(ok_t) == ok_t # "None"

GetOk_inverted(r) ==
  IF r.m_success THEN ErrorTerminate(GetOkMsg) ELSE Return(OkRef(r))

GetOk(r) ==
  IF ~r.m_success THEN ErrorTerminate(GetOkMsg) ELSE Return(OkRef(r))

GetErr_inverted(r) ==
  IF ~r.m_success THEN ErrorTerminate(GetErrMsg) ELSE Return(ErrRef(r))

GetErr(r) ==
  IF r.m_success THEN ErrorTerminate(GetErrMsg) ELSE Return(ErrRef(r))

\* is_same_v<ok_t, None> ? nullptr : Ok() has a type only when nullptr and
\* ok_t have a common type: ok_t a pointer, or a class nullptr converts to.
ExpectWellFormed(ok_t) == ok_t \in {"None", "shared_ptr"}

Expect(r, ok_t, msg) ==
  IF ~r.m_success THEN ErrorTerminate(msg)
  ELSE Return(IF ok_t = "None" THEN nullptr ELSE OkRef(r))

\* operator bool()
OperatorBool(r) == r.m_success

---------------------------------------------------------------------------
(* The state machine.                                                      *)

NoOutcome == [kind |-> "none", value |-> NoValue, out |-> <<>>]

NoOrigin == [how |-> "none", value |-> NoValue, src |-> 0]

Op(name, s, src, arg, msg, outcome) ==
  [op |-> name, obj |-> s, src |-> src, arg |-> arg, msg |-> msg,
   outcome |-> outcome]

Init ==
  /\ okT \in TypeNames
  /\ errT \in TypeNames
  /\ Instantiable(okT, errT)
  /\ status = [s \in Objs |-> "none"]
  /\ m_success = [s \in Objs |-> FALSE]
  /\ m_storage = [s \in Objs |-> Indeterminate]
  /\ dtorLog = [s \in Objs |-> <<>>]
  /\ from = [s \in Objs |-> NoOrigin]
  /\ refs = [p \in Ptrs |-> 0]
  /\ cerr = <<>>
  /\ terminated = FALSE
  /\ last = Op("start", 0, 0, NoValue, "", NoOutcome)

\* Objects are declared one after the other: the next one to construct.
Fresh(s) == status[s] = "none" /\ \A t \in Objs : t < s => status[t] # "none"

\* ~Result(): the payload destructor the discriminant selects.
Destructor(r, ok_t, err_t) == IF r.m_success THEN ok_t ELSE err_t

\* The members of the object Result(const Result& result) constructs.
CopyInit_success(r) ==
  [m_success |-> TRUE, m_storage |-> CopyConstruct(OkRef(r))]

CopyInit(r) ==
  [m_success |-> r.m_success,
   m_storage |-> IF r.m_success THEN CopyConstruct(OkRef(r))
                                ELSE CopyConstruct(ErrRef(r))]

\* The members of the object Result(Result&& result) constructs.
MoveInit_fromMoved(r) ==
  [m_success |-> r.m_success,
   m_storage |-> IF r.m_success THEN MoveConstruct(MovedFrom(OkRef(r)))
                                ELSE MoveConstruct(MovedFrom(ErrRef(r)))]

MoveInit(r) ==
  [m_success |-> r.m_success,
   m_storage |-> IF r.m_success THEN MoveConstruct(OkRef(r))
                                ELSE MoveConstruct(ErrRef(r))]

\* Result(const Success<ok_t>& ok): the wrapper is const, so std::move(ok.value)
\* selects the payload's copy constructor.
ResultFromSuccess(s, w) ==
  /\ ~terminated
  /\ Fresh(s)
  /\ w.tag = "Success"
  /\ w.value.t = okT
  /\ m_success' = [m_success EXCEPT ![s] = TRUE]
  /\ m_storage' = [m_storage EXCEPT ![s] = CopyConstruct(w.value)]
  /\ refs' = Acquire(refs, w.value)
  /\ status' = [status EXCEPT ![s] = "live"]
  /\ from' = [from EXCEPT ![s] = [how |-> "Ok", value |-> w.value, src |-> 0]]
  /\ last' = Op("Result(Success)", s, 0, w.value, "", NoOutcome)
  /\ UNCHANGED <<okT, errT, dtorLog, cerr, terminated>>

\* Result(const Failure<err_t>& err)
ResultFromFailure(s, w) ==
  /\ ~terminated
  /\ Fresh(s)
  /\ w.tag = "Failure"
  /\ w.value.t = errT
  /\ m_success' = [m_success EXCEPT ![s] = FALSE]
  /\ m_storage' = [m_storage EXCEPT ![s] = CopyConstruct(w.value)]
  /\ refs' = Acquire(refs, w.value)
  /\ status' = [status EXCEPT ![s] = "live"]
  /\ from' = [from EXCEPT ![s] = [how |-> "Err", value |-> w.value, src |-> 0]]
  /\ last' = Op("Result(Failure)", s, 0, w.value, "", NoOutcome)
  /\ UNCHANGED <<okT, errT, dtorLog, cerr, terminated>>

\* Result(const Result& result)
ResultCopy(d, s) ==
  /\ ~terminated
  /\ Fresh(d)
  /\ status[s] = "live"
  /\ m_success' = [m_success EXCEPT ![d] = CopyInit(Self(s)).m_success]
  /\ m_storage' = [m_storage EXCEPT ![d] = CopyInit(Self(s)).m_storage]
  /\ refs' = Acquire(refs, m_storage[s])
  /\ status' = [status EXCEPT ![d] = "live"]
  /\ from' = [from EXCEPT ![d] =
        [how |-> "copy", value |-> m_storage[s], src |-> s]]
  /\ last' = Op("Result(const Result&)", d, s, m_storage[s], "", NoOutcome)
  /\ UNCHANGED <<okT, errT, dtorLog, cerr, terminated>>

\* Result(Result&& result): the payload is move-constructed, then the source
\* is destroyed in place by result.~Result().  The source stays in scope.
ResultMove(d, s) ==
  /\ ~terminated
  /\ Fresh(d)
  /\ status[s] = "live"
  /\ m_success' = [m_success EXCEPT ![d] = MoveInit(Self(s)).m_success]
  /\ m_storage' = [m_storage EXCEPT
        ![d] = MoveInit(Self(s)).m_storage,
        ![s] = MovedFrom(m_storage[s])]
  /\ dtorLog' = [dtorLog EXCEPT
        ![s] = Append(@, Destructor(Self(s), okT, errT))]
  /\ refs' = Release(Acquire(refs, m_storage[s]), MovedFrom(m_storage[s]))
  /\ status' = [status EXCEPT ![d] = "live", ![s] = "ended"]
  /\ from' = [from EXCEPT ![d] =
        [how |-> "move", value |-> m_storage[s], src |-> s]]
  /\ last' = Op("Result(Result&&)", d, s, m_storage[s], "", NoOutcome)
  /\ UNCHANGED <<okT, errT, cerr, terminated>>

\* ~Result() at the end of the object's scope.  It runs for every object in
\* scope, also for one the move constructor has destroyed already; the
\* discriminant byte and the storage are as the earlier call left them.
Destroy(s) ==
  /\ ~terminated
  /\ status[s] \in {"live", "ended"}
  /\ dtorLog' = [dtorLog EXCEPT
        ![s] = Append(@, Destructor(Self(s), okT, errT))]
  /\ refs' = Release(refs, m_storage[s])
  /\ status' = [status EXCEPT ![s] = "gone"]
  /\ last' = Op("~Result", s, 0, m_storage[s], "", NoOutcome)
  /\ UNCHANGED <<okT, errT, m_success, m_storage, from, cerr, terminated>>

\* A call of an accessor: its outcome is returned or ends the process.
Call(name, s, arg, msg, outcome) ==
  /\ cerr' = cerr \o outcome.out
  /\ terminated' = (outcome.kind = "terminate")
  /\ last' = Op(name, s, 0, arg, msg, outcome)
  /\ UNCHANGED <<okT, errT, status, m_success, m_storage, dtorLog, from, refs>>

CallTryGet(s, defval) ==
  /\ ~terminated
  /\ status[s] = "live"
  /\ TryGetWellFormed(okT, defval.t)
  /\ Call("TryGet", s, defval, "", TryGet(Self(s), defval.t, defval))

CallGetOk(s) ==
  /\ ~terminated
  /\ status[s] = "live"
  /\ GetOkWellFormed(okT)
  /\ Call("GetOk", s, NoValue, "", GetOk(Self(s)))

CallGetErr(s) ==
  /\ ~terminated
  /\ status[s] = "live"
  /\ Call("GetErr", s, NoValue, "", GetErr(Self(s)))

CallExpect(s, msg) ==
  /\ ~terminated
  /\ status[s] = "live"
  /\ ExpectWellFormed(okT)
  /\ Call("Expect", s, NoValue, msg, Expect(Self(s), okT, msg))

CallOperatorBool(s) ==
  /\ ~terminated
  /\ status[s] = "live"
  /\ Call("operator bool", s, NoValue, "",
          Return(Val("bool", IF OperatorBool(Self(s)) THEN 1 ELSE 0)))

Next ==
  \/ \E s \in Objs, w \in Wrappers : ResultFromSuccess(s, w)
  \/ \E s \in Objs, w \in Wrappers : ResultFromFailure(s, w)
  \/ \E d \in Objs, s \in Objs : ResultCopy(d, s)
  \/ \E d \in Objs, s \in Objs : ResultMove(d, s)
  \/ \E s \in Objs : Destroy(s)
  \/ \E s \in Objs, defval \in AllValues : CallTryGet(s, defval)
  \/ \E s \in Objs : CallGetOk(s)
  \/ \E s \in Objs : CallGetErr(s)
  \/ \E s \in Objs, msg \in Messages : CallExpect(s, msg)
  \/ \E s \in Objs : CallOperatorBool(s)

Spec == Init /\ [][Next]_vars

---------------------------------------------------------------------------
(* Properties.                                                             *)

Built(s, how) == status[s] = "live" /\ from[s].how = how

Range(q) == {q[i] : i \in 1..Len(q)}

\* C1: a container constructed from Ok(v) converts to boolean true, and
\* GetOk() on it returns a value equal to v without terminating the process.
C1_OkConvertsTrueAndGetOkReturns ==
  \A s \in Objs :
    Built(s, "Ok") =>
      /\ OperatorBool(Self(s)) = TRUE
      /\ (last.op = "operator bool" /\ last.obj = s)
           => last.outcome = Return(Val("bool", 1))
      /\ (last.op = "GetOk" /\ last.obj = s)
           => /\ last.outcome = Return(from[s].value)
              /\ ~terminated
              /\ cerr = <<>>

C1_Witness ==
  /\ last.op = "GetOk"
  /\ Built(last.obj, "Ok")
  /\ last.outcome.kind = "return"
  /\ last.outcome.value.v # 0

\* C2: a container constructed from Err(e) converts to boolean false, and
\* GetErr() on it returns a value equal to e without terminating the process.
C2_ErrConvertsFalseAndGetErrReturns ==
  \A s \in Objs :
    Built(s, "Err") =>
      /\ OperatorBool(Self(s)) = FALSE
      /\ (last.op = "operator bool" /\ last.obj = s)
           => last.outcome = Return(Val("bool", 0))
      /\ (last.op = "GetErr" /\ last.obj = s)
           => /\ last.outcome = Return(from[s].value)
              /\ ~terminated
              /\ cerr = <<>>

C2_Witness ==
  /\ last.op = "GetErr"
  /\ Built(last.obj, "Err")
  /\ last.outcome.kind = "return"
  /\ last.outcome.value.v # 0

\* C3: with a success type other than None, TryGet(d) never terminates; it
\* returns a value equal to v on a container built from Ok(v), and a value
\* equal to d on a container built from Err(e), for every default d.
C3_TryGetReturnsPayloadOrDefault ==
  \A s \in Objs :
    (last.op = "TryGet" /\ last.obj = s /\ okT # "None" /\ errT # "None") =>
      /\ ~terminated
      /\ cerr = <<>>
      /\ last.outcome.kind = "return"
      /\ Built(s, "Ok") => last.outcome.value.v = from[s].value.v
      /\ Built(s, "Err") => last.outcome.value.v = last.arg.v

\* C4: GetOk() on a failure-holding container, and GetErr() on a
\* success-holding container, write that accessor's fixed diagnostic to the
\* error stream and terminate the process, returning no payload; neither
\* diagnostic is written when the accessor's own variant is active.
C4_MisuseWritesDiagnosticAndTerminates ==
  /\ (last.op = "GetOk" /\ ~m_success[last.obj])
       => /\ terminated
          /\ cerr = <<GetOkMsg, "\n">>
          /\ last.outcome.kind = "terminate"
          /\ last.outcome.value = NoValue
  /\ (last.op = "GetErr" /\ m_success[last.obj])
       => /\ terminated
          /\ cerr = <<GetErrMsg, "\n">>
          /\ last.outcome.kind = "terminate"
          /\ last.outcome.value = NoValue
  /\ (last.op = "GetOk" /\ m_success[last.obj])
       => ~terminated /\ cerr = <<>> /\ last.outcome.kind = "return"
  /\ (last.op = "GetErr" /\ ~m_success[last.obj])
       => ~terminated /\ cerr = <<>> /\ last.outcome.kind = "return"
  /\ GetOkMsg \in Range(cerr)
       => last.op = "GetOk" /\ ~m_success[last.obj] /\ terminated
  /\ GetErrMsg \in Range(cerr)
       => last.op = "GetErr" /\ m_success[last.obj] /\ terminated

C4_Witness ==
  /\ last.op = "GetOk"
  /\ ~m_success[last.obj]
  /\ terminated
  /\ cerr = <<GetOkMsg, "\n">>

\* C5: Expect(msg) on a success-holding container returns the success
\* payload (the sentinel when the success type is None) and writes nothing;
\* on a failure-holding container it writes exactly msg and terminates.
C5_ExpectReturnsOrTerminates ==
  \A s \in Objs :
    (status[s] = "live" /\ errT # "None") =>
      /\ ExpectWellFormed(okT)
      /\ \A msg \in Messages :
           Expect(Self(s), okT, msg) =
             IF m_success[s] THEN Return(m_storage[s]) ELSE ErrorTerminate(msg)
      /\ (last.op = "Expect" /\ last.obj = s /\ m_success[s])
           => ~terminated /\ cerr = <<>>
      /\ (last.op = "Expect" /\ last.obj = s /\ ~m_success[s])
           => terminated /\ cerr = <<last.msg, "\n">>

\* C6: every payload constructed in a container's storage has its
\* destructor run exactly once, and it is the destructor of the active
\* payload type; a moved-from container's later destruction does not
\* destroy its payload a second time.
C6_PayloadDestroyedExactlyOnce ==
  errT # "None" =>
    \A s \in Objs :
      /\ Len(dtorLog[s]) <= 1
      /\ status[s] = "live" => dtorLog[s] = <<>>
      /\ status[s] = "gone" =>
           dtorLog[s] = <<IF m_success[s] THEN okT ELSE errT>>

\* C7: copy construction gives the new container the source's discriminant
\* and a payload equal to the source's; the source is unchanged by the copy;
\* destroying a container leaves every other container's discriminant and
\* payload as they were, and a pointee a live container still owns alive.
C7_CopyIsEqualAndIndependent ==
  [][ /\ last'.op = "Result(const Result&)" =>
           /\ status'[last'.obj] = "live"
           /\ m_success'[last'.obj] = m_success[last'.src]
           /\ m_storage'[last'.obj] = m_storage[last'.src]
           /\ status'[last'.src] = "live"
           /\ m_success'[last'.src] = m_success[last'.src]
           /\ m_storage'[last'.src] = m_storage[last'.src]
      /\ last'.op = "~Result" =>
           \A t \in Objs \ {last'.obj} :
             /\ status'[t] = status[t]
             /\ m_success'[t] = m_success[t]
             /\ m_storage'[t] = m_storage[t]
             /\ (status[t] = "live" /\ m_storage[t].t = "shared_ptr"
                   /\ m_storage[t].v # 0) => refs'[m_storage[t].v] >= 1
    ]_vars

C7_Witness ==
  \E d \in Objs :
    /\ Built(d, "copy")
    /\ status[from[d].src] = "gone"
    /\ last.op = "~Result"
    /\ m_storage[d] = from[d].value
    /\ m_storage[d].t = "shared_ptr"
    /\ m_storage[d].v # 0

\* C8: move construction gives the new container the discriminant and the
\* payload the source had before the move, for both variants, and every
\* accessor of the new container gives what it would have given on the source.
C8_MoveTransfers ==
  [][ last'.op = "Result(Result&&)" =>
        LET old == Self(last'.src)
            new == [m_success |-> m_success'[last'.obj],
                    m_storage |-> m_storage'[last'.obj]]
        IN  /\ status'[last'.obj] = "live"
            /\ new.m_success = old.m_success
            /\ new.m_storage = old.m_storage
            /\ OperatorBool(new) = OperatorBool(old)
            /\ GetOk(new) = GetOk(old)
            /\ GetErr(new) = GetErr(old)
            /\ \A msg \in Messages :
                 Expect(new, okT, msg) = Expect(old, okT, msg)
            /\ \A x \in AllValues :
                 TryGet(new, x.t, x) = TryGet(old, x.t, x)
    ]_vars

C8_Witness ==
  \E d \in Objs :
    /\ Built(d, "move")
    /\ last.op = "GetOk"
    /\ last.obj = d
    /\ last.outcome = Return(from[d].value)
    /\ from[d].value.t = "shared_ptr"
    /\ from[d].value.v # 0

\* C9: the container's type-level check rejects the value-less sentinel None
\* as failure type, so no container has None as its failure type.
C9_FailureTypeNeverNone ==
  \A s \in Objs :
    status[s] = "live" => errT # "None" /\ ~StaticAssert("None")

\* C10: the storage is at least as large as each payload type and its
\* alignment satisfies the alignment requirement of each payload type, so
\* the payload the discriminant selects can be constructed in it.
C10_StorageFitsBothPayloads ==
  errT # "None" =>
    /\ size_(okT, errT) >= SizeOf(okT)
    /\ size_(okT, errT) >= SizeOf(errT)
    /\ align_(okT, errT) % AlignOf(okT) = 0
    /\ align_(okT, errT) % AlignOf(errT) = 0
    /\ \A s \in Objs :
         status[s] = "live" =>
           /\ size_(okT, errT) >= SizeOf(m_storage[s].t)
           /\ align_(okT, errT) % AlignOf(m_storage[s].t) = 0

====
